---- MODULE Spec2Model ----
(***************************************************************************)
(* H.264 in-loop deblocking filter, 8-bit samples, as implemented by the   *)
(* MMX/SSE2 assembly of libavcodec/x86 (src/unnamed/part_000).             *)
(*                                                                         *)
(* A register is modelled lane by lane: every SIMD byte instruction is an  *)
(* operator on bytes (0..255) with the instruction's wrap-around or        *)
(* saturation, the 16-bit shifts see the neighbouring byte lane, and the   *)
(* unpack instructions of the transposes are operators on byte vectors.    *)
(*                                                                         *)
(* The picture block around the edge is held Line-major: pix[i] is the     *)
(* Line i, a tuple of the samples across the edge.  A luma Line is         *)
(* <<p3,p2,p1,p0,q0,q1,q2,q3>>, a chroma Line is <<p1,p0,q0,q1>>.  A       *)
(* vertical entry point reads sample k of all Lines as one row register,   *)
(* a horizontal entry point reads one Line as a row of memory and          *)
(* transposes.                                                             *)
(***************************************************************************)
EXTENDS Integers, Sequences, FiniteSets, TLC

VARIABLES pix,    \* the picture block, modified in place
          pix0,   \* the block as it was when the entry point was called
          alpha,  \* int alpha argument
          beta,   \* int beta argument
          tc0,    \* int8_t tc0[4] argument, each entry stored as its byte
          plane,  \* "luma" (16 Lines of 8 samples) or "chroma" (8 Lines of 4)
          fn,     \* "none" before the call, then the entry point that ran
          \* the nlm video filter of src/libavfilter/vf_nlm.c
          n_frames,         \* NLMContext.param.n_frames, the 'temporal' option
          images,           \* NLMContext.images[]: the buffer each slot points to
          image_available,  \* NLMContext.image_available[]
          allocated,        \* the bordered image buffers malloc'ed and not freed
          frees,            \* how often free() was called on each buffer
          frame_no,         \* the number of filter_frame calls so far
          scanned,          \* the count i the last call passed to NLMeans_mono_multi
          oob_read,         \* the scan read image_available[MAX_NLMeansImages]
          oob_write,        \* the scan wrote the local images[MAX_NLMeansImages]
          read_set,         \* the buffers the last call handed to NLMeans_mono_multi
          stage             \* "new", "ready" after init, "closed" after uninit

deblock_vars == <<pix, pix0, alpha, beta, tc0, plane, fn>>
nlm_vars == <<n_frames, images, image_available, allocated, frees, frame_no,
              scanned, oob_read, oob_write, read_set, stage>>
vars == <<deblock_vars, nlm_vars>>

\* the state of the nlm filter while the deblocking filter is examined
NlmUnused ==
    /\ n_frames = 0
    /\ images = <<>>
    /\ image_available = <<>>
    /\ allocated = {}
    /\ frees = <<>>
    /\ frame_no = 0
    /\ scanned = 0
    /\ oob_read = FALSE
    /\ oob_write = FALSE
    /\ read_set = {}
    /\ stage = "unused"

(***************************************************************************)
(* Bounds of the model.                                                    *)
(***************************************************************************)
\* largest tc0 entry drawn (besides the sentinel)
MaxTc0 == 2
\* largest distance of a drawn sample from the base level of its block
MaxOff == 5

(***************************************************************************)
(* Byte instructions.                                                      *)
(***************************************************************************)
Byte == 0..255

\* bit k of a byte
Bit(a, k) == (a \div (2 ^ k)) % 2
\* bitwise AND of two bytes, bit by bit
And8(a, b) ==
    Bit(a, 0) * Bit(b, 0) + 2 * Bit(a, 1) * Bit(b, 1)
    + 4 * Bit(a, 2) * Bit(b, 2) + 8 * Bit(a, 3) * Bit(b, 3)
    + 16 * Bit(a, 4) * Bit(b, 4) + 32 * Bit(a, 5) * Bit(b, 5)
    + 64 * Bit(a, 6) * Bit(b, 6) + 128 * Bit(a, 7) * Bit(b, 7)

pand(a, b) == IF a = 255 THEN b ELSE IF b = 255 THEN a
              ELSE IF a = 0 \/ b = 0 THEN 0
              ELSE IF b = 1 THEN a % 2 ELSE And8(a, b)
por(a, b) == IF a = 0 THEN b ELSE IF b = 0 THEN a ELSE a + b - And8(a, b)
pxor(a, b) == IF a = 0 THEN b ELSE IF b = 0 THEN a
              ELSE IF a = 255 THEN 255 - b ELSE IF b = 255 THEN 255 - a
              ELSE a + b - 2 * And8(a, b)
\* pandn dst, src : dst = (NOT dst) AND src
pandn(a, b) == pand(255 - a, b)

pavgb(a, b) == (a + b + 1) \div 2
psubusb(a, b) == IF a > b THEN a - b ELSE 0
paddusb(a, b) == IF a + b > 255 THEN 255 ELSE a + b
psubb(a, b) == (a - b + 256) % 256
paddb(a, b) == (a + b) % 256
pminub(a, b) == IF a < b THEN a ELSE b
pmaxub(a, b) == IF a > b THEN a ELSE b
pcmpeqb(a, b) == IF a = b THEN 255 ELSE 0
\* signed byte value
Signed8(a) == IF a >= 128 THEN a - 256 ELSE a
pcmpgtb(a, b) == IF Signed8(a) > Signed8(b) THEN 255 ELSE 0

\* constants of the byte tables
pb_0 == 0
pb_1 == 1
pb_3 == 3
pb_A1 == 161

\* movd + SPLATW + packuswb of a 32-bit int: the low 16 bits, read as a
\* signed word, saturated to an unsigned byte
SplatByte(x) ==
    LET w == x % 65536
        s == IF w >= 32768 THEN w - 65536 ELSE w
    IN  IF s < 0 THEN 0 ELSE IF s > 255 THEN 255 ELSE s

\* punpckl / punpckh on registers of n bytes (lanes 0..n-1): the units of w
\* bytes of the low / high halves of a and b, interleaved
punpckl(a, b, w, n) ==
    [j \in 0..(n - 1) |->
        LET u == j \div w
            k == (u \div 2) * w + (j % w)
        IN  IF u % 2 = 0 THEN a[k] ELSE b[k]]
punpckh(a, b, w, n) ==
    [j \in 0..(n - 1) |->
        LET u == j \div w
            k == (n \div 2) + (u \div 2) * w + (j % w)
        IN  IF u % 2 = 0 THEN a[k] ELSE b[k]]
punpcklbw(a, b, n) == punpckl(a, b, 1, n)
punpckhbw(a, b, n) == punpckh(a, b, 1, n)
punpcklwd(a, b, n) == punpckl(a, b, 2, n)
punpckhwd(a, b, n) == punpckh(a, b, 2, n)
punpckldq(a, b, n) == punpckl(a, b, 4, n)
punpckhdq(a, b, n) == punpckh(a, b, 4, n)

\* movh of an MMX register: 4 bytes of a memory row into the low half
movh_load(row) == [j \in 0..7 |-> IF j < 4 THEN row[j + 1] ELSE 0]
\* movq: the 8 bytes of a memory row
movq_load(row) == [j \in 0..7 |-> row[j + 1]]
\* movh store: the low 4 bytes of a register, as a memory row
movh_store(m) == << m[0], m[1], m[2], m[3] >>

\* TRANSPOSE4x8_LOAD bw, wd, dq: r[1..8] are 8 memory rows of 4 bytes; gives
\* the registers <<m0, m1, m2, m3>>
TRANSPOSE4x8_LOAD(r) ==
    LET a0 == punpcklbw(movh_load(r[1]), movh_load(r[2]), 8)
        a1 == punpcklbw(movh_load(r[3]), movh_load(r[4]), 8)
        b0 == punpcklwd(a0, a1, 8)
        b2 == punpckhwd(a0, a1, 8)
        a4 == punpcklbw(movh_load(r[5]), movh_load(r[6]), 8)
        a5 == punpcklbw(movh_load(r[7]), movh_load(r[8]), 8)
        b4 == punpcklwd(a4, a5, 8)
        b6 == punpckhwd(a4, a5, 8)
    IN  << punpckldq(b0, b4, 8), punpckhdq(b0, b4, 8),
           punpckldq(b2, b6, 8), punpckhdq(b2, b6, 8) >>

\* TRANSPOSE8x4B_STORE: the registers m0..m3 stored as 8 memory rows of 4
\* bytes
TRANSPOSE8x4B_STORE(m0, m1, m2, m3) ==
    LET m4 == punpckhdq(m0, m0, 8)
        m5 == punpckhdq(m1, m1, 8)
        m6 == punpckhdq(m2, m2, 8)
        a0 == punpcklbw(m0, m1, 8)
        a2 == punpcklbw(m2, m3, 8)
        b1 == punpcklwd(a0, a2, 8)
        b0 == punpckhwd(a0, a2, 8)
        a3 == punpckhdq(m3, m3, 8)
        a4 == punpcklbw(m4, m5, 8)
        a6 == punpcklbw(m6, a3, 8)
        b5 == punpcklwd(a4, a6, 8)
        b4 == punpckhwd(a4, a6, 8)
    IN  << movh_store(b1), movh_store(punpckhdq(b1, b1, 8)),
           movh_store(b0), movh_store(punpckhdq(b0, b0, 8)),
           movh_store(b5), movh_store(punpckhdq(b5, b5, 8)),
           movh_store(b4), movh_store(punpckhdq(b4, b4, 8)) >>

\* TRANSPOSE6x8_MEM: r[1..8] are 8 memory rows of 8 bytes; gives the 6 rows
\* stored at [%9+0x00] .. [%9+0x50]
TRANSPOSE6x8_MEM(r) ==
    LET a0 == punpcklbw(movq_load(r[1]), movq_load(r[2]), 8)
        a1 == punpckhbw(movq_load(r[1]), movq_load(r[2]), 8)
        a2 == punpcklbw(movq_load(r[3]), movq_load(r[4]), 8)
        a3 == punpckhbw(movq_load(r[3]), movq_load(r[4]), 8)
        a4 == punpcklbw(movq_load(r[5]), movq_load(r[6]), 8)
        a5 == punpckhbw(movq_load(r[5]), movq_load(r[6]), 8)
        a6 == punpcklbw(movq_load(r[7]), movq_load(r[8]), 8)
        a7 == punpckhbw(movq_load(r[7]), movq_load(r[8]), 8)
        b0 == punpcklwd(a0, a2, 8)
        b2 == punpckhwd(a0, a2, 8)
        b4 == punpcklwd(a4, a6, 8)
        b6 == punpckhwd(a4, a6, 8)
        c0 == punpckhdq(b0, b4, 8)
        b1 == punpcklwd(a1, a3, 8)
        b3 == punpckhwd(a1, a3, 8)
        b5 == punpcklwd(a5, a7, 8)
        b7 == punpckhwd(a5, a7, 8)
    IN  << c0, punpckldq(b2, b6, 8), punpckhdq(b2, b6, 8),
           punpckldq(b1, b5, 8), punpckhdq(b1, b5, 8), punpckldq(b3, b7, 8) >>

\* TRANSPOSE8x8_MEM: r[1..8] are 8 memory rows of 8 bytes; gives the 8 rows
\* stored at %9 .. %16
TRANSPOSE8x8_MEM(r) ==
    LET a0 == punpcklbw(movq_load(r[1]), movq_load(r[2]), 8)
        a1 == punpckhbw(movq_load(r[1]), movq_load(r[2]), 8)
        a2 == punpcklbw(movq_load(r[3]), movq_load(r[4]), 8)
        a3 == punpckhbw(movq_load(r[3]), movq_load(r[4]), 8)
        a4 == punpcklbw(movq_load(r[5]), movq_load(r[6]), 8)
        a5 == punpckhbw(movq_load(r[5]), movq_load(r[6]), 8)
        a6 == punpcklbw(movq_load(r[7]), movq_load(r[8]), 8)
        a7 == punpckhbw(movq_load(r[7]), movq_load(r[8]), 8)
        b0 == punpcklwd(a0, a2, 8)
        b2 == punpckhwd(a0, a2, 8)
        b4 == punpcklwd(a4, a6, 8)
        b6 == punpckhwd(a4, a6, 8)
        b1 == punpcklwd(a1, a3, 8)
        b3 == punpckhwd(a1, a3, 8)
        b5 == punpcklwd(a5, a7, 8)
        b7 == punpckhwd(a5, a7, 8)
    IN  << punpckldq(b0, b4, 8), punpckhdq(b0, b4, 8),
           punpckldq(b2, b6, 8), punpckhdq(b2, b6, 8),
           punpckldq(b1, b5, 8), punpckhdq(b1, b5, 8),
           punpckldq(b3, b7, 8), punpckhdq(b3, b7, 8) >>

\* movq store: the 8 bytes of a register, as a memory row
movq_store(m) == << m[0], m[1], m[2], m[3], m[4], m[5], m[6], m[7] >>

(***************************************************************************)
(* Threshold / mask unit.                                                  *)
(***************************************************************************)
\* DIFF_GT that forgets the difference b-a
DIFF_GT_oneway(a, b, thr) == psubusb(psubusb(a, b), thr)

\* DIFF_GT: nonzero iff |a-b| > thr
DIFF_GT(a, b, thr) == psubusb(por(psubusb(a, b), psubusb(b, a)), thr)

\* DIFF_GT2: 0xFF iff |a-b| <= thr
DIFF_GT2(a, b, thr) ==
    pcmpeqb(psubusb(psubusb(a, b), thr), psubusb(psubusb(b, a), thr))

\* LOAD_MASK: m7 of one lane, from the splatted alpha-1 and beta-1 bytes
LOAD_MASK(p1, p0, q0, q1, am1, bm1) ==
    LET m7a == DIFF_GT(p0, q0, am1)
        m7b == por(m7a, DIFF_GT(p1, p0, bm1))
        m7c == por(m7b, DIFF_GT(q1, q0, bm1))
    IN  pcmpeqb(m7c, 0)

(***************************************************************************)
(* Luma normal filter.                                                     *)
(***************************************************************************)
\* DEBLOCK_P0_Q0 without the (p0^q0)&1 rounding term
DEBLOCK_P0_Q0_noround(p1, p0, q0, q1, m7) ==
    LET m3a == pavgb(pxor(q1, 255), p1)
        m3b == pavgb(m3a, pb_3)
        m4  == pavgb(pxor(255, p0), q0)
        m3c == pavgb(m3b, pb_0)
        m3d == paddusb(m3c, m4)
        m6  == pminub(psubusb(pb_A1, m3d), m7)
        m3  == pminub(psubusb(m3d, pb_A1), m7)
    IN  << paddusb(psubusb(p0, m6), m3), paddusb(psubusb(q0, m3), m6) >>

\* DEBLOCK_P0_Q0: <<p0', q0'>> of one lane, m7 = tc & mask
DEBLOCK_P0_Q0(p1, p0, q0, q1, m7) ==
    LET m5  == pand(pxor(p0, q0), pb_1)
        m3a == pavgb(pxor(q1, 255), p1)
        m3b == pavgb(m3a, pb_3)
        m4  == pavgb(pxor(255, p0), q0)
        m3c == pavgb(m3b, m5)
        m3d == paddusb(m3c, m4)
        m6  == pminub(psubusb(pb_A1, m3d), m7)
        m3  == pminub(psubusb(m3d, pb_A1), m7)
    IN  << paddusb(psubusb(p0, m6), m3), paddusb(psubusb(q0, m3), m6) >>

\* LUMA_Q1 without the correction of the doubly rounded average
LUMA_Q1_nofix(p0, q0, x1, x2, tc) ==
    LET r2a == pavgb(x2, pavgb(p0, q0))
        lo  == psubusb(x1, tc)
        hi  == paddusb(tc, x1)
    IN  pminub(pmaxub(r2a, lo), hi)

\* LUMA_Q1: the new q1 (or p1) of one lane; x1 = p1, x2 = p2, tc = masked tc0
LUMA_Q1(p0, q0, x1, x2, tc) ==
    LET t6a == pavgb(p0, q0)
        r2a == pavgb(x2, t6a)
        t6b == pand(pxor(t6a, x2), pb_1)
        r2b == psubusb(r2a, t6b)
        lo  == psubusb(x1, tc)
        hi  == paddusb(tc, x1)
    IN  pminub(pmaxub(r2b, lo), hi)

\* v_luma_lane with the new q1 clipped under the p side's mask
v_luma_lane_pmask(s, tcb, a, b) ==
    LET p2 == s[2]
        p1 == s[3]
        p0 == s[4]
        q0 == s[5]
        q1 == s[6]
        q2 == s[7]
        bm1  == SplatByte(b - 1)
        mask == LOAD_MASK(p1, p0, q0, q1, SplatByte(a - 1), bm1)
        m9   == pandn(pcmpeqb(255, tcb), mask)
        m8   == pand(tcb, m9)
        m6p  == pand(DIFF_GT2(p0, p2, bm1), m9)
        m7p  == psubb(m8, m6p)
        p1n  == LUMA_Q1(p0, q0, p1, p2, pand(m6p, m8))
        m6q  == pand(DIFF_GT2(q0, q2, bm1), m9)
        m7   == psubb(m7p, m6q)
        q1n  == LUMA_Q1(p0, q0, q1, q2, pand(m6p, m8))
        pq   == DEBLOCK_P0_Q0(p1, p0, q0, q1, m7)
    IN  << s[1], p2, p1n, pq[1], pq[2], q1n, q2, s[8] >>

\* body of deblock_v_luma_8 (x86_64) for one lane: s is the Line, tcb the
\* byte of the unpacked tc0 register in this lane
v_luma_lane(s, tcb, a, b) ==
    LET p2 == s[2]
        p1 == s[3]
        p0 == s[4]
        q0 == s[5]
        q1 == s[6]
        q2 == s[7]
        bm1  == SplatByte(b - 1)
        mask == LOAD_MASK(p1, p0, q0, q1, SplatByte(a - 1), bm1)
        m9   == pandn(pcmpeqb(255, tcb), mask)
        m8   == pand(tcb, m9)
        m6p  == pand(DIFF_GT2(p0, p2, bm1), m9)
        m7p  == psubb(m8, m6p)
        p1n  == LUMA_Q1(p0, q0, p1, p2, pand(m6p, m8))
        m6q  == pand(DIFF_GT2(q0, q2, bm1), m9)
        m8q  == pand(m8, m6q)
        m7   == psubb(m7p, m6q)
        q1n  == LUMA_Q1(p0, q0, q1, q2, m8q)
        pq   == DEBLOCK_P0_Q0(p1, p0, q0, q1, m7)
    IN  << s[1], p2, p1n, pq[1], pq[2], q1n, q2, s[8] >>

\* TcLanes with a single punpcklbw
TcLanes_once(t, n) ==
    LET m == [j \in 0..(n - 1) |-> IF j < 4 THEN t[j] ELSE 0]
    IN  punpcklbw(m, m, n)

\* movd m8, [r4] ; punpcklbw m8, m8 ; punpcklbw m8, m8 on an n-byte register
TcLanes(t, n) ==
    LET m == [j \in 0..(n - 1) |-> IF j < 4 THEN t[j] ELSE 0]
        u == punpcklbw(m, m, n)
    IN  punpcklbw(u, u, n)

\* v_luma_lane_x86_32 with the groups of tc0 = 0 skipped as well
v_luma_lane_x86_32_gt0(s, tcb, a, b) ==
    LET p2 == s[2]
        p1 == s[3]
        p0 == s[4]
        q0 == s[5]
        q1 == s[6]
        q2 == s[7]
        bm1  == SplatByte(b - 1)
        m7   == LOAD_MASK(p1, p0, q0, q1, SplatByte(a - 1), bm1)
        mask == pand(pcmpgtb(tcb, 0), m7)
        m6p  == pand(DIFF_GT2(p0, p2, bm1), mask)
        m4   == pand(mask, tcb)
        m7p  == psubb(m4, m6p)
        p1n  == LUMA_Q1(p0, q0, p1, p2, pand(m6p, m4))
        m6q  == pand(DIFF_GT2(q0, q2, bm1), mask)
        m7q  == psubb(m7p, m6q)
        q1n  == LUMA_Q1(p0, q0, q1, q2, pand(tcb, m6q))
        pq   == DEBLOCK_P0_Q0(p1, p0, q0, q1, m7q)
    IN  << s[1], p2, p1n, pq[1], pq[2], q1n, q2, s[8] >>

\* body of deblock_v_luma_8 / deblock_v8_luma_8 (x86_32) for one lane
v_luma_lane_x86_32(s, tcb, a, b) ==
    LET p2 == s[2]
        p1 == s[3]
        p0 == s[4]
        q0 == s[5]
        q1 == s[6]
        q2 == s[7]
        bm1  == SplatByte(b - 1)
        m7   == LOAD_MASK(p1, p0, q0, q1, SplatByte(a - 1), bm1)
        mask == pand(pcmpgtb(tcb, 255), m7)
        m6p  == pand(DIFF_GT2(p0, p2, bm1), mask)
        m4   == pand(mask, tcb)
        m7p  == psubb(m4, m6p)
        p1n  == LUMA_Q1(p0, q0, p1, p2, pand(m6p, m4))
        m6q  == pand(DIFF_GT2(q0, q2, bm1), mask)
        m7q  == psubb(m7p, m6q)
        q1n  == LUMA_Q1(p0, q0, q1, q2, pand(tcb, m6q))
        pq   == DEBLOCK_P0_Q0(p1, p0, q0, q1, m7q)
    IN  << s[1], p2, p1n, pq[1], pq[2], q1n, q2, s[8] >>

(***************************************************************************)
(* Chroma filters.                                                         *)
(***************************************************************************)
\* ChromaTcLanes with the double punpcklbw of the luma filter
ChromaTcLanes_twice(t) == TcLanes(t, 8)

\* movd m6, [r4] ; punpcklbw m6, m6 on an MMX register
ChromaTcLanes(t) ==
    LET m == [j \in 0..7 |-> IF j < 4 THEN t[j] ELSE 0]
    IN  punpcklbw(m, m, 8)

\* ff_chroma_inter_body_mmxext for one lane: c = <<p1,p0,q0,q1>>; gives
\* <<p0', q0'>>
chroma_inter_lane(c, tcb, a, b) ==
    LET m7 == LOAD_MASK(c[1], c[2], c[3], c[4], SplatByte(a - 1), SplatByte(b - 1))
    IN  DEBLOCK_P0_Q0(c[1], c[2], c[3], c[4], pand(m7, tcb))

\* CHROMA_INTRA_P0 with the first average rounded up
CHROMA_INTRA_P0_nofix(p0, p1, q1) == pavgb(pavgb(p0, q1), p1)

\* CHROMA_INTRA_P0: %1 = p0, %2 = p1, %3 = q1
CHROMA_INTRA_P0(p0, p1, q1) ==
    pavgb(psubusb(pavgb(p0, q1), pand(pxor(p0, q1), pb_1)), p1)

\* chroma_intra_lane with q0 in the place of q1 in the new p0
chroma_intra_lane_q0(c, a, b) ==
    LET m7 == LOAD_MASK(c[1], c[2], c[3], c[4], SplatByte(a - 1), SplatByte(b - 1))
        m1 == CHROMA_INTRA_P0(c[2], c[1], c[3])
        m2 == CHROMA_INTRA_P0(c[3], c[4], c[1])
    IN  << paddb(pand(psubb(m1, c[2]), m7), c[2]),
           paddb(pand(psubb(m2, c[3]), m7), c[3]) >>

\* ff_chroma_intra_body_mmxext for one lane: gives <<p0', q0'>>
chroma_intra_lane(c, a, b) ==
    LET m7 == LOAD_MASK(c[1], c[2], c[3], c[4], SplatByte(a - 1), SplatByte(b - 1))
        m1 == CHROMA_INTRA_P0(c[2], c[1], c[4])
        m2 == CHROMA_INTRA_P0(c[3], c[4], c[1])
    IN  << paddb(pand(psubb(m1, c[2]), m7), c[2]),
           paddb(pand(psubb(m2, c[3]), m7), c[3]) >>

(***************************************************************************)
(* Luma strong filter.                                                     *)
(***************************************************************************)
\* psrlw by n on the 16-bit word made of byte lo (even lane) and byte hi (odd
\* lane): the byte left in this lane
psrlw(lo, hi, n, low) ==
    IF low THEN (lo \div (2 ^ n)) + (hi % (2 ^ n)) * (2 ^ (8 - n))
    ELSE hi \div (2 ^ n)

\* the wrapping byte sums of LUMA_INTRA_P012 for a Line x = <<p3,p2,p1,p0,q0,q1>>
SumT4(x) == paddb(paddb(x[2], x[3]), paddb(x[4], x[5]))
SumT3(x) == psubb(paddb(SumT4(x), SumT4(x)), psubb(x[2], x[6]))
SumP2(x) == paddb(paddb(paddb(x[1], x[2]), paddb(x[1], x[2])), SumT4(x))

\* the word shift of a byte sum: this lane is the low byte of its word when
\* low, and then the other byte of the word is that of the Line y
ShiftSum(mine, other, n, low) ==
    IF low THEN psrlw(mine, other, n, TRUE) ELSE psrlw(other, mine, n, FALSE)

\* INTRA_P1 taken from the shifted word sum without the byte averages
INTRA_P1_leak(x, y, low) == ShiftSum(SumT4(x), SumT4(y), 2, low)

\* LUMA_INTRA_P012, the p1' part: (p2+p1+p0+q0+2)/4
INTRA_P1(x, y, low) ==
    LET t0a == pavgb(pavgb(x[2], x[3]), pavgb(x[4], x[5]))
        t2a == pavgb(ShiftSum(SumT4(x), SumT4(y), 1, low), pb_0)
    IN  psubb(t0a, pand(pxor(t2a, t0a), pb_1))

\* INTRA_P0A without the correction of the low bit
INTRA_P0A_nofix(x, y, low) ==
    LET t1a == psubb(pavgb(x[2], x[6]), pand(psubb(x[2], x[6]), pb_1))
    IN  pavgb(pavgb(t1a, x[3]), pavgb(x[4], x[5]))

\* LUMA_INTRA_P012, the p0'a part: (p2+2*p1+2*p0+2*q0+q1+4)/8
INTRA_P0A(x, y, low) ==
    LET t1a == psubb(pavgb(x[2], x[6]), pand(psubb(x[2], x[6]), pb_1))
        t1b == pavgb(pavgb(t1a, x[3]), pavgb(x[4], x[5]))
        t3a == pavgb(ShiftSum(SumT3(x), SumT3(y), 2, low), pb_0)
    IN  psubb(t1b, pand(pxor(t3a, t1b), pb_1))

\* INTRA_P0B without the correction of the doubly rounded average
INTRA_P0B_nofix(p1, p0, q1) == pavgb(pavgb(p0, q1), p1)

\* LUMA_INTRA_P012, the p0'b part
INTRA_P0B(p1, p0, q1) ==
    pavgb(psubb(pavgb(p0, q1), pand(pxor(p0, q1), pb_1)), p1)

\* INTRA_P2 without the correction of the low bit
INTRA_P2_nofix(x, y, low, t0) == pavgb(pavgb(x[1], x[2]), t0)

\* LUMA_INTRA_P012, the p2' part: (2*p3+3*p2+p1+p0+q0+4)/8, t0 = p1'
INTRA_P2(x, y, low, t0) ==
    LET u1a == pavgb(pavgb(x[1], x[2]), t0)
        u2a == pavgb(ShiftSum(SumP2(x), SumP2(y), 2, low), pb_0)
    IN  psubb(u1a, pand(pxor(u2a, u1a), pb_1))

\* LUMA_INTRA_P012 of one lane: x = <<p3,p2,p1,p0,q0,q1>> of this Line, y the
\* same of the Line sharing its 16-bit word; gives <<p0', p1', p2'>>
LUMA_INTRA_P012(x, y, low, mask0, mask1p) ==
    LET p2 == x[2]
        p1 == x[3]
        p0 == x[4]
        t0  == INTRA_P1(x, y, low)
        t1  == INTRA_P0A(x, y, low)
        t2  == INTRA_P0B(p1, p0, x[6])
        np0 == pxor(pxor(pand(pxor(t1, t2), mask1p),
                         pand(pxor(t2, p0), mask0)), p0)
        u1  == INTRA_P2(x, y, low, t0)
        np1 == pxor(pand(pxor(t0, p1), mask1p), p1)
        np2 == pxor(pand(pxor(u1, p2), mask1p), p2)
    IN  << np0, np1, np2 >>

\* the Line seen from the q side
SwapPQ(s) == << s[8], s[7], s[6], s[5], s[4], s[3], s[2], s[1] >>

\* v_luma_intra_lane with the (alpha>>2)+2 test gating every update
v_luma_intra_lane_strict(s, n, low, a, b) ==
    LET am1 == SplatByte(a - 1)
        bm1 == SplatByte(b - 1)
        t0 == pand(DIFF_GT2(s[4], s[5], pavgb(pavgb(am1, pb_0), pb_1)),
                   LOAD_MASK(s[3], s[4], s[5], s[6], am1, bm1))
        mask1p == pand(DIFF_GT2(s[4], s[2], bm1), t0)
        mask1q == pand(DIFF_GT2(s[5], s[7], bm1), t0)
        sq == SwapPQ(s)
        nq == SwapPQ(n)
        P == LUMA_INTRA_P012(SubSeq(s, 1, 6), SubSeq(n, 1, 6), low, t0, mask1p)
        Q == LUMA_INTRA_P012(SubSeq(sq, 1, 6), SubSeq(nq, 1, 6), low, t0, mask1q)
    IN  << s[1], P[3], P[2], P[1], Q[1], Q[2], Q[3], s[8] >>

\* body of deblock_v_luma_intra_8 after the early exits, for one lane: s is
\* the Line, n the Line sharing its 16-bit word
v_luma_intra_lane(s, n, low, a, b) ==
    LET p2 == s[2]
        p1 == s[3]
        p0 == s[4]
        q0 == s[5]
        q1 == s[6]
        q2 == s[7]
        am1 == SplatByte(a - 1)
        bm1 == SplatByte(b - 1)
        mask0 == LOAD_MASK(p1, p0, q0, q1, am1, bm1)
        t5 == pavgb(pavgb(am1, pb_0), pb_1)
        t0 == pand(DIFF_GT2(p0, q0, t5), mask0)
        mask1p == pand(DIFF_GT2(p0, p2, bm1), t0)
        mask1q == pand(DIFF_GT2(q0, q2, bm1), t0)
        sq == SwapPQ(s)
        nq == SwapPQ(n)
        P == LUMA_INTRA_P012(SubSeq(s, 1, 6), SubSeq(n, 1, 6), low, mask0, mask1p)
        Q == LUMA_INTRA_P012(SubSeq(sq, 1, 6), SubSeq(nq, 1, 6), low, mask0, mask1q)
    IN  << s[1], P[3], P[2], P[1], Q[1], Q[2], Q[3], s[8] >>

(***************************************************************************)
(* Inputs.                                                                 *)
(***************************************************************************)
LumaLines == 0..15
ChromaLines == 0..7

\* distances from the base level
Offs == <<0, 1, 2, MaxOff>>
OffSet == {Offs[k] : k \in 1..4}
Bases == {0, 255 - MaxOff}
Thresholds == {0, 3, MaxOff + 1}

\* tc0 entries: the sentinel -1 and 0..MaxTc0, as bytes
TcVal(n) == IF n = 0 THEN 255 ELSE n - 1
Tc0Arrays == { [j \in 0..3 |-> TcVal((j + r) % (MaxTc0 + 2))] : r \in 0..(MaxTc0 + 1) }

\* a 16-Line luma block: the p side and q0 are drawn, q1 and q2 run through
\* all pairs of distances along the edge, p3 and q3 vary along the edge
LumaBlock(base, p2, p1, p0, q0) ==
    [i \in LumaLines |->
        << base + Offs[(i % 4) + 1], base + p2, base + p1, base + p0,
           base + q0, base + Offs[(i \div 4) + 1], base + Offs[(i % 4) + 1],
           base + Offs[((i + (i \div 4)) % 4) + 1] >>]

InitLuma ==
    /\ plane = "luma"
    /\ \E base \in Bases : \E p2 \in OffSet, p1 \in OffSet, p0 \in OffSet, q0 \in OffSet :
          pix = LumaBlock(base, p2, p1, p0, q0)
    /\ pix0 = pix
    /\ alpha \in Thresholds
    /\ beta \in Thresholds
    /\ tc0 \in Tc0Arrays
    /\ fn = "none"
    /\ NlmUnused

\* an 8-Line chroma block: p1, p0 and q0 are drawn, q1 varies along the edge
ChromaBlock(base, p1, p0, q0) ==
    [i \in ChromaLines |->
        << base + p1, base + p0, base + q0, base + Offs[(i % 4) + 1] >>]

InitChroma ==
    /\ plane = "chroma"
    /\ \E base \in Bases : \E p1 \in OffSet, p0 \in OffSet, q0 \in OffSet :
          pix = ChromaBlock(base, p1, p0, q0)
    /\ pix0 = pix
    /\ alpha \in Thresholds
    /\ beta \in Thresholds
    /\ tc0 \in Tc0Arrays
    /\ fn = "none"
    /\ NlmUnused

(***************************************************************************)
(* Entry points.                                                           *)
(***************************************************************************)
\* deblock_v_luma_8 (x86_64, 16 lanes) on the block m
v_luma(m, t, a, b) ==
    LET tc == TcLanes(t, 16)
    IN  [i \in LumaLines |-> v_luma_lane(m[i], tc[i], a, b)]

\* void deblock_v_luma( uint8_t *pix, int stride, int alpha, int beta, int8_t *tc0 )
deblock_v_luma_8 ==
    /\ fn = "none"
    /\ plane = "luma"
    /\ pix' = v_luma(pix, tc0, alpha, beta)
    /\ fn' = "deblock_v_luma"
    /\ UNCHANGED <<pix0, alpha, beta, tc0, plane, nlm_vars>>

\* the Line i of the scratch rows written by TRANSPOSE6x8_MEM (p2..q2); the
\* scratch has no p3 and q3 rows
ScratchLine(T, j) == << 0, T[1][j], T[2][j], T[3][j], T[4][j], T[5][j], T[6][j], 0 >>

\* deblock_v8_luma_8_mmxext on 8 Lines of the scratch: the int8_t array read
\* by movd starts at t + off, junk stands for the bytes read past t[3]; gives
\* the 8 filtered Lines
v8_luma_call(T, t, off, junk, a, b) ==
    LET d  == [j \in 0..3 |-> IF j + off < 4 THEN t[j + off] ELSE junk]
        tc == TcLanes(d, 8)
    IN  SubSeq([j \in 1..8 |->
                   v_luma_lane_x86_32(ScratchLine(T, j - 1), tc[j - 1], a, b)], 1, 8)

\* the register holding element k of the 8 lane results
LaneReg(L, k) == [j \in 0..7 |-> L[j + 1][k]]

\* WriteMiddle with the store one column to the left
WriteMiddle_off1(row, w) == << row[1], w[1], w[2], w[3], w[4], row[6], row[7], row[8] >>

\* the 4 middle bytes of a picture row replaced
WriteMiddle(row, w) == << row[1], row[2], w[1], w[2], w[3], w[4], row[7], row[8] >>

\* the rows p1, p0, q0, q1 of the scratch transposed back by
\* TRANSPOSE8x4B_STORE
StoreMiddle(L) ==
    TRANSPOSE8x4B_STORE(LaneReg(L, 3), LaneReg(L, 4), LaneReg(L, 5), LaneReg(L, 6))

\* one half of deblock_h_luma_8_mmxext: 8 picture rows transposed into the
\* scratch, filtered by deblock_v8_luma with the tc0 array at t + off, and
\* transposed back
h_luma_half(rows, t, off, junk, a, b) ==
    StoreMiddle(v8_luma_call(TRANSPOSE6x8_MEM(rows), t, off, junk, a, b))

\* the 16 picture rows with their middle bytes replaced by SA (rows 0..7) and
\* SB (rows 8..15)
h_luma_store(m, SA, SB) ==
    [i \in LumaLines |->
        WriteMiddle(m[i], IF i < 8 THEN SA[i + 1] ELSE SB[i - 7])]

\* deblock_h_luma_8_mmxext (x86_32) on the block m: two transposes into the
\* scratch, deblock_v8_luma on each half, two transposes back
h_luma_mmxext(m, t, a, b, junk) ==
    h_luma_store(m, h_luma_half([k \in 1..8 |-> m[k - 1]], t, 0, junk, a, b),
                    h_luma_half([k \in 1..8 |-> m[k + 7]], t, 2, junk, a, b))

\* void deblock_h_luma( uint8_t *pix, int stride, int alpha, int beta, int8_t *tc0 )
deblock_h_luma_8_mmxext ==
    /\ fn = "none"
    /\ plane = "luma"
    /\ \E junk \in {0, 255} : pix' = h_luma_mmxext(pix, tc0, alpha, beta, junk)
    /\ fn' = "deblock_h_luma_mmxext"
    /\ UNCHANGED <<pix0, alpha, beta, tc0, plane, nlm_vars>>

\* the Line that shares the 16-bit word of Line i in a row register
WordMate(i) == IF i % 2 = 0 THEN i + 1 ELSE i - 1

\* v_luma_intra without the two early exits
v_luma_intra_noexit(m, a, b) ==
    [i \in LumaLines |->
        v_luma_intra_lane(m[i], m[WordMate(i)], i % 2 = 0, a, b)]

\* deblock_v_luma_intra_8 (16 lanes) on the block m
v_luma_intra(m, a, b) ==
    IF a - 1 < 0 \/ b - 1 < 0 THEN m
    ELSE [i \in LumaLines |->
            v_luma_intra_lane(m[i], m[WordMate(i)], i % 2 = 0, a, b)]

\* void deblock_v_luma_intra( uint8_t *pix, int stride, int alpha, int beta )
deblock_v_luma_intra_8 ==
    /\ fn = "none"
    /\ plane = "luma"
    /\ pix' = v_luma_intra(pix, alpha, beta)
    /\ fn' = "deblock_v_luma_intra"
    /\ UNCHANGED <<pix0, alpha, beta, tc0, plane, nlm_vars>>

\* deblock_v_chroma_8_mmxext on the block m
v_chroma(m, t, a, b) ==
    LET tc == ChromaTcLanes(t)
    IN  [i \in ChromaLines |->
           LET r == chroma_inter_lane(m[i], tc[i], a, b)
           IN  << m[i][1], r[1], r[2], m[i][4] >>]

\* void ff_deblock_v_chroma( uint8_t *pix, int stride, int alpha, int beta, int8_t *tc0 )
deblock_v_chroma_8_mmxext ==
    /\ fn = "none"
    /\ plane = "chroma"
    /\ pix' = v_chroma(pix, tc0, alpha, beta)
    /\ fn' = "deblock_v_chroma"
    /\ UNCHANGED <<pix0, alpha, beta, tc0, plane, nlm_vars>>

\* the chroma Line j of the registers m0..m3
RegLine(T, j) == << T[1][j], T[2][j], T[3][j], T[4][j] >>

\* TRANSPOSE8x4B_STORE of p1 and q1 as loaded (T) and of the filtered p0 and
\* q0 (L), as the 8 picture rows
h_chroma_store(T, L) ==
    LET S == TRANSPOSE8x4B_STORE(T[1], LaneReg(L, 1), LaneReg(L, 2), T[4])
    IN  [i \in ChromaLines |-> S[i + 1]]

\* ff_chroma_inter_body on the 8 lanes of the registers T
h_chroma_body(T, tc, a, b) ==
    SubSeq([j \in 1..8 |-> chroma_inter_lane(RegLine(T, j - 1), tc[j - 1], a, b)], 1, 8)

\* the registers T filtered and stored
h_chroma_regs(T, t, a, b) == h_chroma_store(T, h_chroma_body(T, ChromaTcLanes(t), a, b))

\* deblock_h_chroma_8_mmxext on the block m
h_chroma(m, t, a, b) ==
    h_chroma_regs(TRANSPOSE4x8_LOAD([k \in 1..8 |-> m[k - 1]]), t, a, b)

\* void ff_deblock_h_chroma( uint8_t *pix, int stride, int alpha, int beta, int8_t *tc0 )
deblock_h_chroma_8_mmxext ==
    /\ fn = "none"
    /\ plane = "chroma"
    /\ pix' = h_chroma(pix, tc0, alpha, beta)
    /\ fn' = "deblock_h_chroma"
    /\ UNCHANGED <<pix0, alpha, beta, tc0, plane, nlm_vars>>

\* deblock_v_chroma_intra_8_mmxext on the block m
v_chroma_intra(m, a, b) ==
    [i \in ChromaLines |->
        LET r == chroma_intra_lane(m[i], a, b)
        IN  << m[i][1], r[1], r[2], m[i][4] >>]

\* void ff_deblock_v_chroma_intra( uint8_t *pix, int stride, int alpha, int beta )
deblock_v_chroma_intra_8_mmxext ==
    /\ fn = "none"
    /\ plane = "chroma"
    /\ pix' = v_chroma_intra(pix, alpha, beta)
    /\ fn' = "deblock_v_chroma_intra"
    /\ UNCHANGED <<pix0, alpha, beta, tc0, plane, nlm_vars>>

\* ff_chroma_intra_body on the 8 lanes of the registers T
h_chroma_intra_body(T, a, b) ==
    SubSeq([j \in 1..8 |-> chroma_intra_lane(RegLine(T, j - 1), a, b)], 1, 8)

\* the registers T filtered and stored
h_chroma_intra_regs(T, a, b) == h_chroma_store(T, h_chroma_intra_body(T, a, b))

\* deblock_h_chroma_intra_8_mmxext on the block m
h_chroma_intra(m, a, b) ==
    h_chroma_intra_regs(TRANSPOSE4x8_LOAD([k \in 1..8 |-> m[k - 1]]), a, b)

\* void ff_deblock_h_chroma_intra( uint8_t *pix, int stride, int alpha, int beta )
deblock_h_chroma_intra_8_mmxext ==
    /\ fn = "none"
    /\ plane = "chroma"
    /\ pix' = h_chroma_intra(pix, alpha, beta)
    /\ fn' = "deblock_h_chroma_intra"
    /\ UNCHANGED <<pix0, alpha, beta, tc0, plane, nlm_vars>>

\* deblock_v_luma_8_sse2 of the x86_32 build (16 lanes) on the block m
v_luma_x86_32(m, t, a, b) ==
    LET tc == TcLanes(t, 16)
    IN  [i \in LumaLines |-> v_luma_lane_x86_32(m[i], tc[i], a, b)]

\* void deblock_v8_luma( uint8_t *pix, int stride, int alpha, int beta, int8_t *tc0 )
\* as instantiated by DEBLOCK_LUMA sse2, v, 16
deblock_v_luma_8_x86_32 ==
    /\ fn = "none"
    /\ plane = "luma"
    /\ pix' = v_luma_x86_32(pix, tc0, alpha, beta)
    /\ fn' = "deblock_v_luma_x86_32"
    /\ UNCHANGED <<pix0, alpha, beta, tc0, plane, nlm_vars>>

\* the 16 Lines of a 16-lane block F, as a sequence
LineSeq(F) == SubSeq([j \in 1..16 |-> F[j - 1]], 1, 16)

\* the 16 Lines of the scratch of deblock_h_luma_8: TA holds the lanes 0..7
\* (pix_tmp), TB the lanes 8..15 (pix_tmp+8)
Scratch6(TA, TB) ==
    SubSeq([j \in 1..16 |->
               IF j <= 8 THEN ScratchLine(TA, j - 1) ELSE ScratchLine(TB, j - 9)], 1, 16)

\* deblock_v_luma_8 called on the scratch Lines S
h_luma_filter(S, t, a, b) == LineSeq(v_luma([i \in LumaLines |-> S[i + 1]], t, a, b))

\* the write-back of deblock_h_luma_8: the lanes 8..15 of the rows p1..q1 go
\* to the picture rows 8..15, the lanes 0..7 to the rows 0..7
h_luma_writeback(m, F) ==
    h_luma_store(m, StoreMiddle(SubSeq(F, 1, 8)), StoreMiddle(SubSeq(F, 9, 16)))

\* deblock_h_luma_8 (x86_64) on the block m
h_luma(m, t, a, b) ==
    h_luma_writeback(m,
        h_luma_filter(Scratch6(TRANSPOSE6x8_MEM([k \in 1..8 |-> m[k - 1]]),
                               TRANSPOSE6x8_MEM([k \in 1..8 |-> m[k + 7]])),
                      t, a, b))

\* void deblock_h_luma( uint8_t *pix, int stride, int alpha, int beta, int8_t *tc0 )
deblock_h_luma_8 ==
    /\ fn = "none"
    /\ plane = "luma"
    /\ pix' = h_luma(pix, tc0, alpha, beta)
    /\ fn' = "deblock_h_luma"
    /\ UNCHANGED <<pix0, alpha, beta, tc0, plane, nlm_vars>>

\* the Line j of the 8 scratch rows written by TRANSPOSE8x8_MEM (p3..q3)
ScratchLine8(T, j) ==
    << T[1][j], T[2][j], T[3][j], T[4][j], T[5][j], T[6][j], T[7][j], T[8][j] >>

\* the 16 Lines of the scratch of deblock_h_luma_intra_8
Scratch8(TA, TB) ==
    SubSeq([j \in 1..16 |->
               IF j <= 8 THEN ScratchLine8(TA, j - 1) ELSE ScratchLine8(TB, j - 9)], 1, 16)

\* deblock_v_luma_intra_8 called on the scratch Lines S
h_luma_intra_filter(S, a, b) ==
    LineSeq(v_luma_intra([i \in LumaLines |-> S[i + 1]], a, b))

\* 8 bytes of the scratch row k (1..8), lanes off+1 .. off+8, as a memory row
ScratchRow(F, k, off) ==
    << F[off + 1][k], F[off + 2][k], F[off + 3][k], F[off + 4][k],
       F[off + 5][k], F[off + 6][k], F[off + 7][k], F[off + 8][k] >>

\* TRANSPOSE8x8_MEM of the scratch lanes off+1 .. off+8 back to 8 picture rows
h_luma_intra_half(F, off) ==
    TRANSPOSE8x8_MEM([k \in 1..8 |-> ScratchRow(F, k, off)])

\* h_luma_intra_store with the two halves stored to each other's rows
h_luma_intra_store_swapped(RA, RB) ==
    [i \in LumaLines |-> movq_store(IF i < 8 THEN RB[i + 1] ELSE RA[i - 7])]

\* the 16 picture rows stored from the two halves
h_luma_intra_store(RA, RB) ==
    [i \in LumaLines |-> movq_store(IF i < 8 THEN RA[i + 1] ELSE RB[i - 7])]

\* the write-back of deblock_h_luma_intra_8: pix_tmp+8 to the rows 8..15,
\* pix_tmp to the rows 0..7
h_luma_intra_writeback(F) ==
    h_luma_intra_store(h_luma_intra_half(F, 0), h_luma_intra_half(F, 8))

\* deblock_h_luma_intra_8 (x86_64) on the block m
h_luma_intra(m, a, b) ==
    h_luma_intra_writeback(
        h_luma_intra_filter(Scratch8(TRANSPOSE8x8_MEM([k \in 1..8 |-> m[k - 1]]),
                                     TRANSPOSE8x8_MEM([k \in 1..8 |-> m[k + 7]])),
                            a, b))

\* void deblock_h_luma_intra( uint8_t *pix, int stride, int alpha, int beta )
deblock_h_luma_intra_8 ==
    /\ fn = "none"
    /\ plane = "luma"
    /\ pix' = h_luma_intra(pix, alpha, beta)
    /\ fn' = "deblock_h_luma_intra"
    /\ UNCHANGED <<pix0, alpha, beta, tc0, plane, nlm_vars>>

Init == InitLuma \/ InitChroma

Next ==
    \/ deblock_v_luma_8
    \/ deblock_h_luma_8_mmxext
    \/ deblock_v_luma_intra_8
    \/ deblock_v_chroma_8_mmxext
    \/ deblock_h_chroma_8_mmxext
    \/ deblock_v_chroma_intra_8_mmxext
    \/ deblock_h_chroma_intra_8_mmxext

Spec == Init /\ [][Next]_vars

\* the chroma entry points alone
NextChroma ==
    \/ deblock_v_chroma_8_mmxext
    \/ deblock_h_chroma_8_mmxext
    \/ deblock_v_chroma_intra_8_mmxext
    \/ deblock_h_chroma_intra_8_mmxext

SpecChroma == InitChroma /\ [][NextChroma]_vars

\* the luma normal filter alone
NextLuma ==
    \/ deblock_v_luma_8
    \/ deblock_h_luma_8_mmxext

SpecLuma == InitLuma /\ [][NextLuma]_vars

\* the luma strong filter alone
SpecLumaIntra == InitLuma /\ [][deblock_v_luma_intra_8]_vars

\* luma blocks with p2 at the ends of the range of distances and q0 at two
\* of them
InitLumaAll ==
    /\ plane = "luma"
    /\ \E base \in Bases : \E p2 \in {Offs[1], Offs[4]}, p1 \in OffSet,
                              p0 \in OffSet, q0 \in {Offs[2], Offs[4]} :
          pix = LumaBlock(base, p2, p1, p0, q0)
    /\ pix0 = pix
    /\ alpha \in Thresholds
    /\ beta \in Thresholds
    /\ tc0 \in Tc0Arrays
    /\ fn = "none"
    /\ NlmUnused

InitAll == InitLumaAll \/ InitChroma

\* the vertical and the horizontal entry points of both planes
NextAll ==
    \/ deblock_v_luma_8
    \/ deblock_h_luma_8
    \/ deblock_h_luma_8_mmxext
    \/ deblock_v_luma_intra_8
    \/ deblock_h_luma_intra_8
    \/ deblock_v_chroma_8_mmxext
    \/ deblock_h_chroma_8_mmxext
    \/ deblock_v_chroma_intra_8_mmxext
    \/ deblock_h_chroma_intra_8_mmxext

SpecAll == InitAll /\ [][NextAll]_vars

(***************************************************************************)
(* Worked scenarios, smooth edges and tc0 bytes outside -1..MaxTc0.        *)
(***************************************************************************)
\* the Line of the luma scenario, p3..p0 then q0..q3, and of the chroma one
LumaScenario == <<90, 92, 94, 96, 100, 98, 96, 94>>
ChromaScenario == <<100, 96, 90, 80>>

\* the scenario Line on every fourth Line, brighter copies in between
ScenarioLumaBlock ==
    [i \in LumaLines |-> [k \in 1..8 |-> LumaScenario[k] + (i % 4)]]
ScenarioChromaBlock ==
    [i \in ChromaLines |-> [k \in 1..4 |-> ChromaScenario[k] + (i % 4)]]

\* smooth Lines: p2..q2 all at one level, p3 and q3 vary along the edge
SmoothLumaBlock(base, lvl) ==
    [i \in LumaLines |->
        << base + Offs[(i % 4) + 1], base + lvl, base + lvl, base + lvl,
           base + lvl, base + lvl, base + lvl, base + Offs[(i \div 4) + 1] >>]
SmoothChromaBlock(base) ==
    [i \in ChromaLines |->
        [k \in 1..4 |-> base + Offs[(i % 4) + 1]]]

\* alpha and beta of the scenarios, the values next to them, and zero
CaseAlphas == {0, 7, 20}
CaseBetas == {0, 10, 11}

\* int8_t tc0[4] read as bytes: every sign and both ends of the range
CaseTc0Arrays ==
    { [j \in 0..3 |-> <<2, 254, 255, 128>>[((j + r) % 4) + 1]] : r \in 0..3 } \cup
    { [j \in 0..3 |-> <<0, 255, 127, 129>>[((j + r) % 4) + 1]] : r \in 0..3 }

InitCasesLuma ==
    /\ plane = "luma"
    /\ \/ pix = ScenarioLumaBlock
       \/ \E base \in Bases, lvl \in OffSet : pix = SmoothLumaBlock(base, lvl)
    /\ pix0 = pix
    /\ alpha \in CaseAlphas
    /\ beta \in CaseBetas
    /\ tc0 \in CaseTc0Arrays
    /\ fn = "none"
    /\ NlmUnused

InitCasesChroma ==
    /\ plane = "chroma"
    /\ \/ pix = ScenarioChromaBlock
       \/ \E base \in Bases : pix = SmoothChromaBlock(base)
    /\ pix0 = pix
    /\ alpha \in CaseAlphas
    /\ beta \in CaseBetas
    /\ tc0 \in CaseTc0Arrays
    /\ fn = "none"
    /\ NlmUnused

InitCases == InitCasesLuma \/ InitCasesChroma

\* the four filters, the luma normal one in both builds
NextCases ==
    \/ deblock_v_luma_8
    \/ deblock_v_luma_8_x86_32
    \/ deblock_v_luma_intra_8
    \/ deblock_v_chroma_8_mmxext
    \/ deblock_v_chroma_intra_8_mmxext

SpecCases == InitCases /\ [][NextCases]_vars

(***************************************************************************)
(* The scalar equations of the filter, per Line.                           *)
(***************************************************************************)
Abs(x) == IF x < 0 THEN -x ELSE x
Clip3(lo, hi, x) == IF x < lo THEN lo ELSE IF x > hi THEN hi ELSE x
Clip1(x) == Clip3(0, 255, x)
\* arithmetic right shift
Asr(x, n) == x \div (2 ^ n)

\* luma Line <<p3,p2,p1,p0,q0,q1,q2,q3>>
filterEdge(s, a, b) ==
    /\ Abs(s[4] - s[5]) < a
    /\ Abs(s[3] - s[4]) < b
    /\ Abs(s[6] - s[5]) < b
ap(s, b) == Abs(s[2] - s[4]) < b
aq(s, b) == Abs(s[7] - s[5]) < b
Sentinel == 255
\* tc0 entry of luma Line i, as a signed value
LumaTc0(i) == Signed8(tc0[i \div 4])
LumaTC(s, t, b) == t + (IF ap(s, b) THEN 1 ELSE 0) + (IF aq(s, b) THEN 1 ELSE 0)
RawDelta(p1, p0, q0, q1) == Asr((q0 - p0) * 4 + (p1 - q1) + 4, 3)
Delta(p1, p0, q0, q1, tC) == Clip3(-tC, tC, RawDelta(p1, p0, q0, q1))
LumaDelta(s, t, b) == Delta(s[3], s[4], s[5], s[6], LumaTC(s, t, b))
\* the Lines of the luma normal filter that are filtered
LumaFiltered(i) == filterEdge(pix0[i], alpha, beta) /\ tc0[i \div 4] # Sentinel

RawSecond(p0, q0, x1, x2) == Asr(x2 + Asr(p0 + q0 + 1, 1) - 2 * x1, 1)
Second(p0, q0, x1, x2, t) == x1 + Clip3(-t, t, RawSecond(p0, q0, x1, x2))

\* C2: in deblock_v_luma, on every filtered Line, p1' is p1 plus the
\* correction clipped to +-tc0 when ap holds and p1 otherwise, and the same
\* for q1' with aq; p0 and q0 are the pre-call values.
C2_SecondSamples ==
    fn = "deblock_v_luma" =>
        \A i \in LumaLines : LumaFiltered(i) =>
            LET s == pix0[i]
                t == LumaTc0(i)
            IN  /\ pix[i][3] = IF ap(s, beta) THEN Second(s[4], s[5], s[3], s[2], t)
                                ELSE s[3]
                /\ pix[i][6] = IF aq(s, beta) THEN Second(s[4], s[5], s[6], s[7], t)
                                ELSE s[6]

\* a filtered Line with ap whose p1 correction is cut by tc0 > 0, and a
\* filtered Line without aq
C2_Witness ==
    /\ fn = "deblock_v_luma"
    /\ \E i \in LumaLines : LumaFiltered(i) /\ ap(pix0[i], beta) /\
          LET s == pix0[i]
          IN  /\ LumaTc0(i) > 0
              /\ Abs(RawSecond(s[4], s[5], s[3], s[2])) > LumaTc0(i)
              /\ pix[i][3] # s[3]
    /\ \E i \in LumaLines : LumaFiltered(i) /\ ~aq(pix0[i], beta)

\* the stricter test that selects the three-sample update
StrongGate(s, a) == Abs(s[4] - s[5]) < Asr(a, 2) + 2
\* the three-sample update of the side x = <<p3,p2,p1,p0,q0,q1>>
StrongP0(x) == Asr(x[2] + 2 * x[3] + 2 * x[4] + 2 * x[5] + x[6] + 4, 3)
StrongP1(x) == Asr(x[2] + x[3] + x[4] + x[5] + 2, 2)
StrongP2(x) == Asr(2 * x[1] + 3 * x[2] + x[3] + x[4] + x[5] + 4, 3)
\* the one-sample update
WeakP0(x) == Asr(2 * x[3] + x[4] + x[6] + 2, 2)
\* the one-sample update as the else-branch is written with q0
WeakP0_q0(x) == Asr(2 * x[3] + x[4] + x[5] + 2, 2)

\* C3: in deblock_v_luma_intra, on every Line where filterEdge, the
\* (alpha>>2)+2 test and ap hold, p0', p1', p2' are the three-sample
\* averages of the pre-call samples; the same on the q side with aq.
C3_StrongThreeSamples ==
    fn = "deblock_v_luma_intra" =>
        \A i \in LumaLines :
            LET s == pix0[i]
                x == SubSeq(s, 1, 6)
                y == SubSeq(SwapPQ(s), 1, 6)
                strong == filterEdge(s, alpha, beta) /\ StrongGate(s, alpha)
            IN  /\ (strong /\ ap(s, beta)) =>
                       /\ pix[i][4] = StrongP0(x)
                       /\ pix[i][3] = StrongP1(x)
                       /\ pix[i][2] = StrongP2(x)
                /\ (strong /\ aq(s, beta)) =>
                       /\ pix[i][5] = StrongP0(y)
                       /\ pix[i][6] = StrongP1(y)
                       /\ pix[i][7] = StrongP2(y)

\* a Line with the three-sample update on the p side that changes p0, p1
\* and p2, while its byte sum p2+p1+p0+q0 wraps around 256
C3_Witness ==
    /\ fn = "deblock_v_luma_intra"
    /\ \E i \in LumaLines :
          LET s == pix0[i]
          IN  /\ filterEdge(s, alpha, beta) /\ StrongGate(s, alpha) /\ ap(s, beta)
              /\ pix[i][4] # s[4] /\ pix[i][3] # s[3] /\ pix[i][2] # s[2]
              /\ s[2] + s[3] + s[4] + s[5] > 255

C5_StrongEligibility ==
    fn = "deblock_v_luma_intra" =>
        \A i \in LumaLines :
            LET s == pix0[i]
            IN  /\ ~filterEdge(s, alpha, beta) => pix[i] = s
                /\ (filterEdge(s, alpha, beta) /\ ~StrongGate(s, alpha)) =>
                      pix[i] = << s[1], s[2], s[3], WeakP0(SubSeq(s, 1, 6)),
                                  WeakP0(SubSeq(SwapPQ(s), 1, 6)), s[6], s[7], s[8] >>

\* C5 as stated: a Line is modified only if filterEdge and the (alpha>>2)+2
\* test both hold
C5_StrongEligibility_AsStated ==
    fn = "deblock_v_luma_intra" =>
        \A i \in LumaLines :
            LET s == pix0[i]
            IN  ~(filterEdge(s, alpha, beta) /\ StrongGate(s, alpha)) => pix[i] = s

\* a Line where filterEdge holds, the (alpha>>2)+2 test fails, ap and aq
\* hold, and p0 and q0 change
C5_Witness ==
    /\ fn = "deblock_v_luma_intra"
    /\ \E i \in LumaLines :
          LET s == pix0[i]
          IN  /\ filterEdge(s, alpha, beta) /\ ~StrongGate(s, alpha)
              /\ ap(s, beta) /\ aq(s, beta)
              /\ pix[i][4] # s[4] /\ pix[i][5] # s[5]

\* the samples <<p1,p0,q0,q1>> of a Line of either plane
Core(s) == IF Len(s) = 8 THEN << s[3], s[4], s[5], s[6] >> ELSE s
CoreEdge(c, a, b) ==
    /\ Abs(c[2] - c[3]) < a
    /\ Abs(c[1] - c[2]) < b
    /\ Abs(c[4] - c[3]) < b

\* C6: for alpha, beta >= 1 and every entry point, the LOAD_MASK byte of a
\* Line is 0xFF exactly when |p0-q0| < alpha, |p1-p0| < beta and
\* |q1-q0| < beta, and 0 otherwise; a Line where it is 0 is unchanged after
\* the call; the DIFF_GT2 bytes of a luma Line are 0xFF exactly when
\* |p2-p0| < beta and |q2-q0| < beta.
C6_ThresholdGate ==
    (alpha >= 1 /\ beta >= 1) =>
        \A i \in DOMAIN pix0 :
            LET s == pix0[i]
                c == Core(s)
                bm1 == SplatByte(beta - 1)
                m == LOAD_MASK(c[1], c[2], c[3], c[4], SplatByte(alpha - 1), bm1)
            IN  /\ m = IF CoreEdge(c, alpha, beta) THEN 255 ELSE 0
                /\ (fn # "none" /\ ~CoreEdge(c, alpha, beta)) => pix[i] = s
                /\ plane = "luma" =>
                      /\ DIFF_GT2(s[4], s[2], bm1) = IF ap(s, beta) THEN 255 ELSE 0
                      /\ DIFF_GT2(s[5], s[7], bm1) = IF aq(s, beta) THEN 255 ELSE 0

\* after the luma strong filter: a Line that passes the alpha test and fails
\* a beta test next to a Line that passes all three and is changed
C6_Witness ==
    /\ fn = "deblock_v_luma_intra" /\ alpha >= 1 /\ beta >= 1
    /\ \E i \in LumaLines :
          /\ ~filterEdge(pix0[i], alpha, beta)
          /\ Abs(pix0[i][4] - pix0[i][5]) < alpha
    /\ \E i \in LumaLines : filterEdge(pix0[i], alpha, beta) /\ pix[i] # pix0[i]

\* the luma normal filter of one Line, t its tc0 entry
RefLumaLine(s, t, a, b) ==
    IF ~filterEdge(s, a, b) THEN s
    ELSE LET d == LumaDelta(s, t, b)
         IN  << s[1], s[2],
                IF ap(s, b) THEN Second(s[4], s[5], s[3], s[2], t) ELSE s[3],
                Clip1(s[4] + d), Clip1(s[5] - d),
                IF aq(s, b) THEN Second(s[4], s[5], s[6], s[7], t) ELSE s[6],
                s[7], s[8] >>

\* the threshold that the packed byte of x-1 stands for in DIFF_GT
EffThr(x) == SplatByte(x - 1) + 1

\* C7: in deblock_v_luma (16 lanes) and in deblock_h_luma of the mmxext
\* variant (deblock_v8_luma called with tc0 and tc0+2), Line i is governed by
\* tc0[i >> 2]: the Lines of a group whose entry is -1 are unchanged for all
\* samples, alpha and beta, and every other Line is filtered with the entry
\* of its own group, whatever the entries of the other groups are.
C7_Tc0Groups ==
    fn \in {"deblock_v_luma", "deblock_h_luma_mmxext"} =>
        \A i \in LumaLines :
            pix[i] = IF tc0[i \div 4] = Sentinel THEN pix0[i]
                     ELSE RefLumaLine(pix0[i], LumaTc0(i), EffThr(alpha), EffThr(beta))

\* the mmxext variant with the sentinel in tc0[3]: the Lines 12..15 pass
\* filterEdge and stay, a Line of 8..11 is changed under tc0[2]
C7_Witness ==
    /\ fn = "deblock_h_luma_mmxext"
    /\ tc0[3] = Sentinel
    /\ \A i \in 12..15 : filterEdge(pix0[i], alpha, beta) /\ pix[i] = pix0[i]
    /\ \E i \in 8..11 : pix[i] # pix0[i]

\* C8: deblock_v_luma and deblock_v_chroma called with alpha = 0 modify no
\* Line.
C8_AlphaZero ==
    (fn \in {"deblock_v_luma", "deblock_v_chroma"} /\ alpha = 0) => pix = pix0

\* tc0 entry of chroma Line i, as a signed value
ChromaTc0(i) == Signed8(tc0[i \div 2])

RefChromaIntraLine(c, a, b) ==
    IF CoreEdge(c, a, b)
    THEN << c[1], Asr(2 * c[1] + c[2] + c[4] + 2, 2),
            Asr(2 * c[4] + c[3] + c[1] + 2, 2), c[4] >>
    ELSE c

\* C10: in deblock_v_chroma_intra and deblock_h_chroma_intra p1 and q1 are
\* unchanged; where filterEdge holds p0' = (2*p1+p0+q1+2)>>2 and
\* q0' = (2*q1+q0+p1+2)>>2 from the pre-call samples; elsewhere p0 and q0 are
\* unchanged.
C10_ChromaStrong ==
    fn \in {"deblock_v_chroma_intra", "deblock_h_chroma_intra"} =>
        \A i \in ChromaLines : pix[i] = RefChromaIntraLine(pix0[i], alpha, beta)

\* C10 for alpha, beta >= 1: the same statement on the calls whose thresholds
\* are positive.
C10_ChromaStrong_Positive ==
    (fn \in {"deblock_v_chroma_intra", "deblock_h_chroma_intra"}
       /\ alpha >= 1 /\ beta >= 1) =>
        \A i \in ChromaLines : pix[i] = RefChromaIntraLine(pix0[i], alpha, beta)

\* deblock_h_chroma_intra with positive thresholds on a filtered Line with
\* p0+q1 odd whose p0 and q0 change, next to a Line where filterEdge fails
C10_Witness ==
    /\ fn = "deblock_h_chroma_intra" /\ alpha >= 1 /\ beta >= 1
    /\ \E i \in ChromaLines :
          LET c == pix0[i]
          IN  /\ CoreEdge(c, alpha, beta)
              /\ (c[2] + c[4]) % 2 = 1
              /\ pix[i][2] # c[2] /\ pix[i][3] # c[3]
    /\ \E i \in ChromaLines : ~CoreEdge(pix0[i], alpha, beta)

\* C11: in deblock_v_chroma and deblock_h_chroma the Lines governed by a tc0
\* entry equal to -1 are left unmodified, whatever their samples, alpha and
\* beta are.
C11_ChromaSentinel ==
    fn \in {"deblock_v_chroma", "deblock_h_chroma"} =>
        \A i \in ChromaLines : tc0[i \div 2] = Sentinel => pix[i] = pix0[i]

\* the entry points of each filter, by the name left in fn
LumaNormalFns == {"deblock_v_luma", "deblock_h_luma", "deblock_h_luma_mmxext"}
LumaStrongFns == {"deblock_v_luma_intra", "deblock_h_luma_intra"}
ChromaFns == {"deblock_v_chroma", "deblock_h_chroma",
              "deblock_v_chroma_intra", "deblock_h_chroma_intra"}

\* C12: after any call, on every Line, the luma normal filter leaves p3, p2,
\* q2, q3 with their pre-call values, the luma strong filter leaves p3 and
\* q3, and the chroma filters leave p1 and q1, in the vertical and in the
\* horizontal entry points.
C12_WriteFootprint ==
    /\ fn \in LumaNormalFns =>
          \A i \in LumaLines :
              /\ pix[i][1] = pix0[i][1] /\ pix[i][2] = pix0[i][2]
              /\ pix[i][7] = pix0[i][7] /\ pix[i][8] = pix0[i][8]
    /\ fn \in LumaStrongFns =>
          \A i \in LumaLines : pix[i][1] = pix0[i][1] /\ pix[i][8] = pix0[i][8]
    /\ fn \in ChromaFns =>
          \A i \in ChromaLines : pix[i][1] = pix0[i][1] /\ pix[i][4] = pix0[i][4]

\* deblock_h_luma has changed p1 and p0 of a Line of the rows 8..15 whose p2
\* differs from the new p1
C12_Witness ==
    /\ fn = "deblock_h_luma"
    /\ \E i \in 8..15 :
          /\ pix[i][3] # pix0[i][3]
          /\ pix[i][4] # pix0[i][4]
          /\ pix[i][3] # pix0[i][2]

\* C13: each horizontal entry point leaves the picture as the corresponding
\* vertical entry point leaves the transposed block, with the same alpha,
\* beta and tc0: Line r of the horizontal edge is filtered as Line r of the
\* vertical edge, with the same tc0 entry, and is stored to row r.
C13_Orientation ==
    /\ fn = "deblock_h_luma" => pix = v_luma(pix0, tc0, alpha, beta)
    /\ fn = "deblock_h_luma_mmxext" => pix = v_luma_x86_32(pix0, tc0, alpha, beta)
    /\ fn = "deblock_h_luma_intra" => pix = v_luma_intra(pix0, alpha, beta)
    /\ fn = "deblock_h_chroma" => pix = v_chroma(pix0, tc0, alpha, beta)
    /\ fn = "deblock_h_chroma_intra" => pix = v_chroma_intra(pix0, alpha, beta)

\* deblock_h_luma_intra has changed a row of each half of the scratch, in
\* different ways
C13_Witness ==
    /\ fn = "deblock_h_luma_intra"
    /\ \E i \in 0..7, j \in 8..15 :
          /\ pix[i] # pix0[i]
          /\ pix[j] # pix0[j]
          /\ pix[i] # pix[j]

(***************************************************************************)
(* The worked scenarios.                                                   *)
(***************************************************************************)
LumaNormalBuilds == {"deblock_v_luma", "deblock_v_luma_x86_32"}

\* Line i holds the luma scenario and its group has tc0 = 2
IsLumaScenario(i) == pix0[i] = LumaScenario /\ tc0[i \div 4] = 2

\* C14 as stated: the luma normal filter with alpha = 20, beta = 10 and
\* tc0 = 2 turns the scenario Line into one with p0' = 97 and q0' = 99.
C14_LumaScenario_AsStated ==
    (fn \in LumaNormalBuilds /\ alpha = 20 /\ beta = 10) =>
        \A i \in LumaLines :
            IsLumaScenario(i) => pix[i][4] = 97 /\ pix[i][5] = 99

\* C14: the luma normal filter with alpha = 20, beta = 10 and tc0 = 2 turns
\* the scenario Line into p0' = 98 and q0' = 98 (delta = 2 from p1 = 94 and
\* q1 = 98, tC = 4), with p1' = 95, q1' = 97 and p3, p2, q2, q3 kept.
C14_LumaScenario ==
    (fn \in LumaNormalBuilds /\ alpha = 20 /\ beta = 10) =>
        \A i \in LumaLines :
            IsLumaScenario(i) => pix[i] = <<90, 92, 95, 98, 98, 97, 96, 94>>

\* deblock_v_luma has filtered the scenario Line under the scenario's inputs
C14_Witness ==
    /\ fn = "deblock_v_luma"
    /\ alpha = 20
    /\ beta = 10
    /\ \E i \in LumaLines : IsLumaScenario(i) /\ pix[i] # pix0[i]

\* C15 as stated: the chroma strong filter with alpha > 6 and beta > 10
\* turns the Line (100, 96, 90, 80) into one with p0' = 97 and q0' = 88.
C15_ChromaScenario_AsStated ==
    (fn = "deblock_v_chroma_intra" /\ alpha > 6 /\ beta > 10) =>
        \A i \in ChromaLines :
            pix0[i] = ChromaScenario => pix[i][2] = 97 /\ pix[i][3] = 88

\* C15: the chroma strong filter with alpha > 6 and beta > 10 turns the
\* Line (100, 96, 90, 80) into p0' = (2*100 + 96 + 80 + 2) >> 2 = 94 and
\* q0' = (2*80 + 90 + 100 + 2) >> 2 = 88, p1 and q1 kept.
C15_ChromaScenario ==
    (fn = "deblock_v_chroma_intra" /\ alpha > 6 /\ beta > 10) =>
        \A i \in ChromaLines :
            pix0[i] = ChromaScenario => pix[i] = <<100, 94, 88, 80>>

\* deblock_v_chroma_intra has filtered the scenario Line
C15_Witness ==
    /\ fn = "deblock_v_chroma_intra"
    /\ alpha > 6
    /\ beta > 10
    /\ \E i \in ChromaLines : pix0[i] = ChromaScenario /\ pix[i] # pix0[i]

(***************************************************************************)
(* Exchange of the two sides of the edge.                                  *)
(***************************************************************************)
\* the luma normal filter applied to the mirror image of Line i, with the
\* parameters of Line i
Mirrored(i) == v_luma_lane(SwapPQ(pix0[i]), tc0[i \div 4], alpha, beta)

\* the sum (q0 - p0)*4 + (p1 - q1) + 4 of Line s is a multiple of 8 whose
\* eighth k is not clipped away by tC on either side: -tC < k <= tC
HalfwayDelta(s, tC) ==
    LET x == (s[5] - s[4]) * 4 + (s[3] - s[6]) + 4
    IN  /\ x % 8 = 0
        /\ -tC < Asr(x, 3)
        /\ Asr(x, 3) <= tC

\* M and S are the same Line, or differ in p0 and q0 only where half allows
SidesExchanged(M, S, half) ==
    \/ M = S
    \/ half /\ \A k \in {1, 2, 3, 6, 7, 8} : M[k] = S[k]

SmoothLuma(s) == \A k \in 2..7 : s[k] = s[4]
\* p1, p0, q0, q1 of the chroma Line c are one value
SmoothChroma(c) == \A k \in 1..4 : c[k] = c[2]

\* C17 as stated: each of the four filters returns a smooth Line unchanged,
\* for any p3, q3, alpha, beta and tc0.
C17_SmoothFixedPoint_AsStated ==
    /\ fn \in LumaNormalBuilds \cup {"deblock_v_luma_intra"} =>
          \A i \in LumaLines : SmoothLuma(pix0[i]) => pix[i] = pix0[i]
    /\ fn \in {"deblock_v_chroma", "deblock_v_chroma_intra"} =>
          \A i \in ChromaLines : SmoothChroma(pix0[i]) => pix[i] = pix0[i]

\* the p2' (or q2') of the strong filter on a smooth Line of level v whose
\* outer sample is x3
SmoothOuter(x3, v) ==
    IF alpha >= 1 /\ beta >= 1 THEN Asr(2 * x3 + 6 * v + 4, 3) ELSE v

\* C17: the luma normal, chroma normal and chroma strong filters return a
\* smooth Line unchanged; the luma strong filter keeps p1, p0, q0, q1, p3, q3
\* and, unless alpha = 0 or beta = 0, sets p2' = (2*p3 + 6*v + 4) >> 3 and
\* q2' = (2*q3 + 6*v + 4) >> 3, v being the common value.
C17_SmoothFixedPoint ==
    /\ fn \in LumaNormalBuilds =>
          \A i \in LumaLines : SmoothLuma(pix0[i]) => pix[i] = pix0[i]
    /\ fn \in {"deblock_v_chroma", "deblock_v_chroma_intra"} =>
          \A i \in ChromaLines : SmoothChroma(pix0[i]) => pix[i] = pix0[i]
    /\ fn = "deblock_v_luma_intra" =>
          \A i \in LumaLines :
              SmoothLuma(pix0[i]) =>
                  pix[i] = << pix0[i][1], SmoothOuter(pix0[i][1], pix0[i][4]),
                              pix0[i][3], pix0[i][4], pix0[i][5], pix0[i][6],
                              SmoothOuter(pix0[i][8], pix0[i][4]), pix0[i][8] >>

\* deblock_v_luma_intra has moved p2 of a smooth Line and left its q2
C17_Witness ==
    /\ fn = "deblock_v_luma_intra"
    /\ \E i \in LumaLines :
          /\ SmoothLuma(pix0[i])
          /\ pix[i][2] # pix0[i][2]
          /\ pix[i][7] = pix0[i][7]

(***************************************************************************)
(* Each Line is filtered on its own.                                       *)
(***************************************************************************)
\* Lines that could stand in the other byte of Line i's 16-bit word
OtherLines(i) == { pix0[(i + 5) % 16], [k \in 1..8 |-> 255] }

\* the luma strong filter of the Line s whose word mate is n
StrongLine(s, n, low) ==
    IF alpha - 1 < 0 \/ beta - 1 < 0 THEN s
    ELSE v_luma_intra_lane(s, n, low, alpha, beta)

\* the chroma Line c with new p0 and q0
WithCentre(c, pq) == << c[1], pq[1], pq[2], c[4] >>

\* C18: after every entry point each Line i is a function of its own samples
\* before the call, alpha, beta and the tc0 entry of its group: the lane
\* function applied to those alone gives it, whatever Line shares its 16-bit
\* word and whichever byte of the word it occupies.
C18_PerLine ==
    /\ fn \in {"deblock_v_luma", "deblock_h_luma"} =>
          \A i \in LumaLines :
              pix[i] = v_luma_lane(pix0[i], tc0[i \div 4], alpha, beta)
    /\ fn = "deblock_h_luma_mmxext" =>
          \A i \in LumaLines :
              pix[i] = v_luma_lane_x86_32(pix0[i], tc0[i \div 4], alpha, beta)
    /\ fn \in LumaStrongFns =>
          \A i \in LumaLines : \A n \in OtherLines(i) : \A low \in BOOLEAN :
              pix[i] = StrongLine(pix0[i], n, low)
    /\ fn \in {"deblock_v_chroma", "deblock_h_chroma"} =>
          \A i \in ChromaLines :
              pix[i] = WithCentre(pix0[i],
                          chroma_inter_lane(pix0[i], tc0[i \div 2], alpha, beta))
    /\ fn \in {"deblock_v_chroma_intra", "deblock_h_chroma_intra"} =>
          \A i \in ChromaLines :
              pix[i] = WithCentre(pix0[i], chroma_intra_lane(pix0[i], alpha, beta))

\* the strong filter has changed p2, p1 and p0 of a Line, and the Line
\* sharing its word differed from it before the call and got another p2
C18_Witness ==
    /\ fn \in LumaStrongFns
    /\ \E i \in LumaLines :
          /\ pix[i][2] # pix0[i][2]
          /\ pix[i][3] # pix0[i][3]
          /\ pix[i][4] # pix0[i][4]
          /\ pix0[WordMate(i)] # pix0[i]
          /\ pix[WordMate(i)][2] # pix[i][2]

(***************************************************************************)
(* The early exit of the luma strong filter.                               *)
(***************************************************************************)
\* C19: deblock_v_luma_intra and deblock_h_luma_intra called with alpha = 0
\* or beta = 0 leave all 16 Lines of the edge as they were.
C19_StrongEarlyExit ==
    (fn \in LumaStrongFns /\ (alpha = 0 \/ beta = 0)) => pix = pix0

\* deblock_h_luma_intra has returned with alpha = 0 on a block in which the
\* filter body would have changed a Line
C19_Witness ==
    /\ fn = "deblock_h_luma_intra"
    /\ alpha = 0
    /\ pix = pix0
    /\ \E i \in LumaLines :
          v_luma_intra_lane(pix0[i], pix0[WordMate(i)], i % 2 = 0, alpha, beta)
              # pix0[i]

(***************************************************************************)
(* The two builds of the luma normal filter.                               *)
(***************************************************************************)
\* C20 as stated: the x86_64 body and the x86_32 body of deblock_v_luma give
\* the same picture for every tc0 byte 0..255, every alpha, beta and block.
C20_VariantAgreement ==
    /\ fn = "deblock_v_luma" => pix = v_luma_x86_32(pix0, tc0, alpha, beta)
    /\ fn = "deblock_v_luma_x86_32" => pix = v_luma(pix0, tc0, alpha, beta)

\* C20 for the tc0 bytes -1 and 0..127: on the Lines of a group whose tc0 is
\* not below -1 the two bodies give the same samples.
C20_VariantAgreement_FromMinusOne ==
    /\ fn = "deblock_v_luma" =>
          \A i \in LumaLines :
              Signed8(tc0[i \div 4]) >= -1 =>
                  pix[i] = v_luma_lane_x86_32(pix0[i], tc0[i \div 4], alpha, beta)
    /\ fn = "deblock_v_luma_x86_32" =>
          \A i \in LumaLines :
              Signed8(tc0[i \div 4]) >= -1 =>
                  pix[i] = v_luma_lane(pix0[i], tc0[i \div 4], alpha, beta)

\* the x86_64 body has filtered a Line of a group with tc0 = 0 and skipped a
\* Line of a group with tc0 = -1
C20_Witness ==
    /\ fn = "deblock_v_luma"
    /\ \E i \in LumaLines : tc0[i \div 4] = 0 /\ pix[i] # pix0[i]
    /\ \E i \in LumaLines :
          /\ tc0[i \div 4] = Sentinel
          /\ pix[i] = pix0[i]
          /\ v_luma_lane(pix0[i], 0, alpha, beta) # pix0[i]

(***************************************************************************)
(* The frame history of the nlm video filter (src/libavfilter/vf_nlm.c).   *)
(*                                                                         *)
(* A ColorImage is modelled by the buffer its planes point to: the three   *)
(* planes of a frame are allocated together by filter_frame and freed      *)
(* together by free_color_image.  The buffer of the k-th frame is k, and   *)
(* NULL stands for a ColorImage whose planes have mem_start = NULL.  The   *)
(* private context is allocated zeroed by the filter framework.            *)
(***************************************************************************)
MAX_NLMeansImages == 32
NULL == 0

\* filter_frame calls examined, and slots a scan may run past the arrays
MaxCalls == 34
MaxOverrun == 2

Slots == 0..(MAX_NLMeansImages - 1)
Buffers == 1..MaxCalls

\* the buffers free() is called on by free_color_image(&imgs[s])
Freed(imgs, s) == IF imgs[s] # NULL THEN {imgs[s]} ELSE {}

\* imgs after free_color_image(&imgs[s]): free_mono_image clears mem_start
free_color_image(imgs, s) == [imgs EXCEPT ![s] = NULL]

\* the shift of NLMeans_color_auto run from slot 1 upwards
ShiftImages_ascending(imgs, n, new) ==
    [j \in Slots |-> IF j = 0 THEN new ELSE IF j <= n - 1 THEN imgs[0] ELSE imgs[j]]

\* for (i = n-1; i > 0; i--) images[i] = images[i-1]; then images[0] = *img
ShiftImages(imgs, n, new) ==
    [j \in Slots |-> IF j = 0 THEN new ELSE IF j <= n - 1 THEN imgs[j - 1] ELSE imgs[j]]

\* the shift of image_available started one slot too high
ShiftAvailable_from_n(av, n) ==
    [j \in Slots |-> IF j = 0 THEN 1 ELSE IF j <= n THEN av[j - 1] ELSE av[j]]

\* for (i = n-1; i > 0; i--) image_available[i] = image_available[i-1];
\* then image_available[0] = 1
ShiftAvailable(av, n) ==
    [j \in Slots |-> IF j = 0 THEN 1 ELSE IF j <= n - 1 THEN av[j - 1] ELSE av[j]]

\* for (i = 0; ctx->image_available[i]; i++): the first i at which the loop
\* stops inside the array, or MAX_NLMeansImages when every slot is set and
\* the next read is past the array
RECURSIVE ScanFrom(_, _)
ScanFrom(av, i) ==
    IF i = MAX_NLMeansImages THEN i
    ELSE IF av[i] # 0 THEN ScanFrom(av, i + 1)
    ELSE i

\* the state of the context when the filter is created
InitNlm ==
    /\ pix = <<>>
    /\ pix0 = <<>>
    /\ alpha = 0
    /\ beta = 0
    /\ tc0 = <<>>
    /\ plane = "nlm"
    /\ fn = "none"
    /\ n_frames \in 1..MAX_NLMeansImages
    /\ images = [j \in Slots |-> NULL]
    /\ image_available = [j \in Slots |-> 0]
    /\ allocated = {}
    /\ frees = [b \in Buffers |-> 0]
    /\ frame_no = 0
    /\ scanned = 0
    /\ oob_read = FALSE
    /\ oob_write = FALSE
    /\ read_set = {}
    /\ stage = "new"

\* static av_cold int init(AVFilterContext *ctx)
init ==
    /\ stage = "new"
    /\ image_available' = [j \in Slots |-> 0]
    /\ stage' = "ready"
    /\ UNCHANGED <<deblock_vars, n_frames, images, allocated, frees, frame_no,
                   scanned, oob_read, oob_write, read_set>>

\* the outcome of NLMeans_color_auto on the history (imgs, av) with the new
\* buffer: the history after it, the buffers it freed, and the in-bounds
\* result of its scan
ColorAuto(imgs, av, n, new) ==
    [ freed  |-> Freed(imgs, n - 1),
      images |-> ShiftImages(free_color_image(imgs, n - 1), n, new),
      avail  |-> ShiftAvailable(av, n),
      i      |-> ScanFrom(ShiftAvailable(av, n), 0) ]

\* static int filter_frame(AVFilterLink *inlink, AVFrame *in): allocates the
\* bordered copy of the frame and calls NLMeans_color_auto.  When the scan
\* leaves the array, what it reads there is not determined by the program:
\* it may stop at once or run on for some slots, writing the local images[].
filter_frame ==
    /\ stage = "ready"
    /\ frame_no < MaxCalls
    /\ \E over \in 0..MaxOverrun :
          LET r == ColorAuto(images, image_available, n_frames, frame_no + 1)
              past == r.i = MAX_NLMeansImages
          IN  /\ (over > 0 => past)
              /\ images' = r.images
              /\ image_available' = r.avail
              /\ allocated' = (allocated \ r.freed) \cup {frame_no + 1}
              /\ frees' = [b \in Buffers |-> IF b \in r.freed THEN frees[b] + 1
                                                ELSE frees[b]]
              /\ scanned' = r.i + over
              /\ oob_read' = (oob_read \/ past)
              /\ oob_write' = (oob_write \/ over > 0)
              /\ read_set' = { r.images[j] : j \in 0..(r.i - 1) }
    /\ frame_no' = frame_no + 1
    /\ UNCHANGED <<deblock_vars, n_frames, stage>>

\* static av_cold void uninit(AVFilterContext *ctx)
uninit ==
    /\ stage = "ready"
    /\ LET f == UNION { Freed(images, j) : j \in { k \in Slots : image_available[k] # 0 } }
       IN  /\ allocated' = allocated \ f
           /\ frees' = [b \in Buffers |-> IF b \in f THEN frees[b] + 1 ELSE frees[b]]
    /\ images' = [j \in Slots |-> IF image_available[j] # 0 THEN NULL ELSE images[j]]
    /\ image_available' = [j \in Slots |-> 0]
    /\ read_set' = {}
    /\ stage' = "closed"
    /\ UNCHANGED <<deblock_vars, n_frames, frame_no, scanned, oob_read, oob_write>>

NextNlm ==
    \/ init
    \/ filter_frame
    \/ uninit

SpecNlm == InitNlm /\ [][NextNlm]_vars

(***************************************************************************)
(* The scan of the frame history.                                          *)
(***************************************************************************)
Min(a, b) == IF a < b THEN a ELSE b

\* C21 as stated: for every n_frames in 1..MAX_NLMeansImages and after any
\* number of filter_frame calls the scan ends with i <= n_frames and has
\* neither read image_available[] nor written the local images[] at index
\* MAX_NLMeansImages or beyond.
C21_ScanInBounds ==
    /\ scanned <= n_frames
    /\ ~oob_read
    /\ ~oob_write

\* C21 for the histories that are not full: with n_frames below
\* MAX_NLMeansImages, or fewer than MAX_NLMeansImages calls so far, the scan
\* ends inside the arrays with i = min(calls, n_frames).
C21_ScanInBounds_NotFull ==
    (stage \in {"ready", "closed"}
        /\ (n_frames < MAX_NLMeansImages \/ frame_no < MAX_NLMeansImages)) =>
        /\ scanned = Min(frame_no, n_frames)
        /\ ~oob_read
        /\ ~oob_write

\* with n_frames one below the maximum, more calls than slots have been made
\* and the last scan stopped at the first slot that is never set
C21_Witness ==
    /\ stage = "ready"
    /\ n_frames = MAX_NLMeansImages - 1
    /\ frame_no > n_frames
    /\ scanned = n_frames
    /\ image_available[n_frames] = 0

(***************************************************************************)
(* The frame history.                                                      *)
(***************************************************************************)
\* the slots whose ColorImage points to the buffer b
Owners(b) == { j \in Slots : images[j] = b }

\* the number of frames the history holds after frame_no calls
Held == Min(frame_no, n_frames)

====
